---- MODULE Spec2Model ----
(***************************************************************************)
(* A model of imagesort.py: the media catalog (sqlite tables camera and    *)
(* media with their UNIQUE constraints and the connection's pending        *)
(* transaction), the destination tree, ImageSort.sort() taken statement by *)
(* statement, and ImageSort.verify().                                      *)
(***************************************************************************)
EXTENDS Integers, Sequences, FiniteSets, TLC

\* ------------------------------------------------------------------------
\* Bounds of the model
\* ------------------------------------------------------------------------
\* number of fixture files the scans of a behaviour list, all together
MaxFiles == 3
\* number of command invocations (scan-directory / verify) in a behaviour
MaxRuns == 2
\* number of files in the large directory (exceeds the commit threshold)
BurstLen == 26
\* number of changes made to the destination tree from outside the program
MaxExternal == 1

\* ------------------------------------------------------------------------
\* Program constants
\* ------------------------------------------------------------------------
\* ImageSort.__init__: self.update_threshold = 25
update_threshold == 25

\* Media.__init__: self.exts
exts ==
  [image  |-> {"jpg", "jpeg", "tif", "tiff", "raw", "png", "bmp"},
   video  |-> {"mp4"},
   future |-> {"mp3", "wav", "flac", "mkv", "avi"}]

\* ------------------------------------------------------------------------
\* Files of the source tree
\*   a file is [stem, rawext, content]; content is [exif, data], where exif
\*   is the tag -> value mapping ExifTool returns for these bytes (a record
\*   whose fields are the tags present) and data the remaining bytes.
\*   EXIF:CreateDate is the string "YYYY:MM:DD HH:MM:SS", held as the tuple
\*   of its six numeric fields.
\* ------------------------------------------------------------------------
Stamp(s) == <<2023, 5, 1, 10, 0, s>>

Content(make, model, date, d) ==
  [exif |-> [Make |-> make, Model |-> model, CreateDate |-> date], data |-> d]

File(stem, rawext, c) == [stem |-> stem, rawext |-> rawext, content |-> c]

\* fixtures: the same bytes under three names, a second picture of the same
\* second, a later picture, a second camera, and files that are broken or
\* not media
Files ==
  { File("IMG_1", "jpg",  Content("Canon", "EOS", Stamp(1), 1)),
    File("IMG_2", "JPG",  Content("Canon", "EOS", Stamp(1), 1)),
    File("IMG_1", "jpeg", Content("Canon", "EOS", Stamp(1), 1)),
    File("IMG_3", "jpg",  Content("Canon", "EOS", Stamp(1), 2)),
    File("IMG_4", "jpg",  Content("Canon", "EOS", Stamp(2), 3)),
    File("DSC_1", "jpg",  Content("Nikon", "D50", Stamp(1), 4)),
    File("DSC_2", "jpg",
         [exif |-> [Make |-> "Nikon", Model |-> "D50"], data |-> 5]),
    File("DSC_3", "jpg",
         Content("Nikon", "D50", <<2023, 13, 1, 10, 0, 0>>, 6)),
    File("PIC_1", "jpg",
         [exif |-> [Model |-> "Pix", CreateDate |-> Stamp(1)], data |-> 7]),
    File("PIC_2", "png",
         [exif |-> [Make |-> "Pix", CreateDate |-> Stamp(1)], data |-> 8]),
    File("notes", "txt",  Content("Canon", "EOS", Stamp(1), 9)) }

\* the large directory: BurstLen pictures of one camera, one per second,
\* in the order the walk lists them; its first picture has the bytes of
\* IMG_1.jpg
BurstFile(i) ==
  File("BURST", "jpg",
       Content("Canon", "EOS", Stamp(i), IF i = 1 THEN 1 ELSE 100 + i))

BurstDir == [i \in 1..BurstLen |-> BurstFile(i)]

\* what the operator may type at the prompts of _new_camera ("" = Enter)
NameInputs == {"", "cam"}
DescInputs == {""}

VARIABLES
  camera,     \* table camera as the connection sees it: rows in rowid order
  media,      \* table media as the connection sees it (pending rows included)
  durable,    \* table media as committed to the database file
  disk,       \* destination tree: canonical path -> content of the file there
  pc,         \* "shell" (no process), the statement sort()/verify() is at,
              \* or "exit" (the process has ended)
  status,     \* how the last process ended: "none", "ok" or the exception
  command,    \* args.func of the process: "none", "scandir" or "verify"
  directory,  \* args.directory: the files os.walk has listed, in walk order
  more,       \* os.walk may list further files (the listing unfolds as the
              \* walk goes); FALSE once the content of the directory is known
  idx,        \* number of files of the walk taken so far
  count,      \* sort(): count
  inserted,   \* _handle_file(): inserted
  copied,     \* _handle_file(): copied
  checksums,  \* args.checksums
  todo,       \* verify(): rows of get_files() not yet visited
  runs,       \* command invocations so far
  listed,     \* fixture files listed so far
  externals,  \* outside changes to the destination tree so far
  hist        \* observations of the behaviour, read by the properties only

vars == <<camera, media, durable, disk, pc, status, command, directory, more,
          idx, count, inserted, copied, checksums, todo, runs, listed,
          externals, hist>>

\* ------------------------------------------------------------------------
\* Media
\* ------------------------------------------------------------------------
\* str.lower() on the extensions that occur
Lower(s) ==
  CASE s = "JPG"  -> "jpg"
    [] s = "JPEG" -> "jpeg"
    [] s = "PNG"  -> "png"
    [] s = "MP4"  -> "mp4"
    [] s = "TXT"  -> "txt"
    [] OTHER      -> s

\* Media.ext
ext(f) == Lower(f.rawext)

\* recognized() answering True for every file
recognized_all(f) == TRUE

\* Media.is_image, Media.is_video, Media.recognized
is_image(f) == ext(f) \in exts.image
is_video(f) == ext(f) \in exts.video
recognized(f) == is_image(f) \/ is_video(f)

\* Media._get_exif_value: self.exif[key] raises KeyError for an absent tag
HasTag(f, key) == key \in DOMAIN f.content.exif
ExifValue(f, key) == f.content.exif[key]

\* hashlib.sha256 over the bytes of a file: equal bytes, equal digest;
\* distinct bytes of the model, distinct digests
Sha256(c) == <<"sha256", c>>

\* Media.sha256sum
sha256sum(f) == Sha256(f.content)

\* Media.size: os.stat(...).st_size
size(f) == 1000 + f.content.data

\* datetime.strptime(s, "%Y:%m:%d %H:%M:%S"): ValueError unless every field
\* is in range
IsLeap(y) == (y % 4 = 0 /\ y % 100 # 0) \/ y % 400 = 0
DaysIn(y, m) ==
  CASE m \in {4, 6, 9, 11} -> 30
    [] m = 2 -> IF IsLeap(y) THEN 29 ELSE 28
    [] OTHER -> 31
StrptimeOk(t) ==
  /\ t[1] \in 1..9999
  /\ t[2] \in 1..12
  /\ t[3] \in 1..DaysIn(t[1], t[2])
  /\ t[4] \in 0..23
  /\ t[5] \in 0..59
  /\ t[6] \in 0..59
Strptime(t) ==
  [year |-> t[1], month |-> t[2], day |-> t[3],
   hour |-> t[4], minute |-> t[5], second |-> t[6]]

\* Media.date: the outcome of evaluating the property
DateError(f) ==
  IF ~HasTag(f, "CreateDate") THEN "KeyError"
  ELSE IF ~StrptimeOk(ExifValue(f, "CreateDate")) THEN "ValueError"
  ELSE "none"
date(f) == Strptime(ExifValue(f, "CreateDate"))

\* datetime.strftime("%Y-%m") and strftime("%Y-%m-%d %H.%M.%S"), as the
\* tuples of the fields the formats print
StrftimeYm(d) == <<d.year, d.month>>
StrftimeStamp(d) == <<d.year, d.month, d.day, d.hour, d.minute, d.second>>

\* DB._get_camera_name_from_model (the model is registered when it is called)
CameraRow(model) == CHOOSE i \in 1..Len(camera) : camera[i].model = model
camera_name_from_model(model) == camera[CameraRow(model)].name

\* camera_id_from_model with the rowid counted from zero
camera_id_from_model_zero_based(model) == CameraRow(model) - 1

\* DB.camera_id_from_model
camera_id_from_model(model) == CameraRow(model)

\* newname with the extension as it is spelled in the file name
newname_raw_ext(f) ==
  LET _name == camera_name_from_model(ExifValue(f, "Model"))
      _date == date(f)
  IN  <<_name, StrftimeYm(_date), <<StrftimeStamp(_date), _name, f.rawext>>>>

\* Media.newname: os.path.join(_name, _datedir, _newname), with
\* _newname = stamp + "." + _name + "." + ext
newname(f) ==
  LET _name == camera_name_from_model(ExifValue(f, "Model"))
      _date == date(f)
  IN  <<_name, StrftimeYm(_date), <<StrftimeStamp(_date), _name, ext(f)>>>>

\* ------------------------------------------------------------------------
\* DB
\* ------------------------------------------------------------------------
\* DB.camera_model_exists
camera_model_exists(model) == \E i \in 1..Len(camera) : camera[i].model = model

\* table camera with UNIQUE declared on the model alone
CameraUniqueOk_model_only(row) ==
  \A i \in 1..Len(camera) : camera[i].model # row.model

\* table camera: name CHAR UNIQUE, model CHAR UNIQUE
CameraUniqueOk(row) ==
  \A i \in 1..Len(camera) : camera[i].name # row.name /\ camera[i].model # row.model

\* file_exists_in_db without its SELECT: the INSERT is always attempted
file_exists_in_db_skipped(f) == FALSE

\* DB.file_exists_in_db
file_exists_in_db(f) == \E r \in media : r.sha256sum = sha256sum(f)

\* table media: filename_new CHAR UNIQUE, sha256sum CHAR UNIQUE
MediaUniqueOk(row) ==
  \A r \in media : r.filename_new # row.filename_new /\ r.sha256sum # row.sha256sum

\* DB.insert_image_into_db: the row it builds
MediaRow(f) ==
  [filename_original |-> <<f.stem, f.rawext>>,
   filename_new      |-> newname(f),
   sha256sum         |-> sha256sum(f),
   size              |-> size(f),
   create_date       |-> date(f),
   camera_id         |-> camera_id_from_model(ExifValue(f, "Model"))]

\* _copy without its os.path.exists test: the file is always copied
Exists_unchecked(p) == FALSE

\* os.path.exists on a path of the destination tree
Exists(p) == p \in DOMAIN disk

\* a copy that returns without having written the file
WriteFile_skipped(p, c) == disk

\* shutil.copy2 into the destination tree; os.remove from outside
WriteFile(p, c) == [q \in DOMAIN disk \cup {p} |-> IF q = p THEN c ELSE disk[q]]
RemoveFile(p) == [q \in DOMAIN disk \ {p} |-> disk[q]]

\* ------------------------------------------------------------------------
\* The state after construction (ImageSort.__init__, DB._init_db): the
\* tables exist and are empty, the destination tree is empty
\* ------------------------------------------------------------------------
Models == {"EOS", "D50", "Pix"}

NoHist ==
  [prompts  |-> [m \in Models |-> 0],  \* runs of _new_camera, per model
   rerun    |-> FALSE,   \* this scan repeats the scan that just completed
   inserts  |-> 0,       \* successful INSERTs into media of this scan
   copies   |-> 0,       \* files copied by this scan
   copiedAt |-> 0,       \* idx of the last file _copy copied
   rowsAt   |-> {},      \* media when verify() started
   visited  |-> {},      \* rows verify() examined
   flagged  |-> {},      \* rows verify() reported a checksum mismatch for
   deleted  |-> FALSE]   \* a destination file was deleted from outside

Init ==
  /\ camera = <<>>
  /\ media = {}
  /\ durable = {}
  /\ disk = <<>>
  /\ pc = "shell"
  /\ status = "none"
  /\ command = "none"
  /\ directory = <<>>
  /\ more = FALSE
  /\ idx = 0
  /\ count = 0
  /\ inserted = FALSE
  /\ copied = "None"
  /\ checksums = FALSE
  /\ todo = {}
  /\ runs = 0
  /\ listed = 0
  /\ externals = 0
  /\ hist = NoHist

\* the file the loop of sort() is handling
image == directory[idx]

\* no process is running
Idle == pc \in {"shell", "exit"}

\* an uncaught exception: the traceback ends the process, the connection
\* is closed without commit and the pending transaction is rolled back
Traceback(kind) ==
  /\ pc' = "exit"
  /\ status' = kind
  /\ media' = durable
  /\ more' = FALSE
  /\ UNCHANGED <<camera, durable, disk, command, directory, idx, count,
                 inserted, copied, checksums, todo, runs, listed, externals>>

Raise(kind) == Traceback(kind) /\ UNCHANGED hist

\* ------------------------------------------------------------------------
\* scan-directory: ImageSort.sort()
\* ------------------------------------------------------------------------
\* scandir(args): a new process; sort() sets count = 0
Begin(d, m) ==
  /\ Idle
  /\ runs < MaxRuns
  /\ pc' = "walk"
  /\ status' = "none"
  /\ command' = "scandir"
  /\ directory' = d
  /\ more' = m
  /\ idx' = 0
  /\ count' = 0
  /\ inserted' = FALSE
  /\ copied' = "None"
  /\ checksums' = FALSE
  /\ todo' = {}
  /\ runs' = runs + 1
  /\ UNCHANGED <<camera, media, durable, disk, listed, externals>>

NewRun == [hist EXCEPT !.rerun = FALSE, !.inserts = 0, !.copies = 0,
                       !.copiedAt = 0, !.rowsAt = {}, !.visited = {},
                       !.flagged = {}]

\* a scan of a directory of fixture files, listed as the walk goes
StartScan ==
  /\ Begin(<<>>, TRUE)
  /\ hist' = NewRun

\* a scan of the large directory
StartScanBurst ==
  /\ Begin(BurstDir, FALSE)
  /\ hist' = NewRun

\* the scan that has just completed normally is run again over the same
\* directory, nothing having changed in between
StartRescan ==
  /\ pc = "exit" /\ command = "scandir" /\ status = "ok"
  /\ Begin(directory, FALSE)
  /\ hist' = [NewRun EXCEPT !.rerun = TRUE]

\* lines 501-508: the next file of the walk; an unrecognized one is skipped
Take(f) ==
  /\ pc = "walk"
  /\ idx' = idx + 1
  /\ pc' = IF recognized(f) THEN "resolve" ELSE "walk"
  /\ UNCHANGED <<camera, media, durable, disk, status, command, more, count,
                 inserted, copied, checksums, todo, runs, externals, hist>>

\* os.walk lists a file not listed before
NextFileNew(f) ==
  /\ more
  /\ idx = Len(directory)
  /\ listed < MaxFiles
  /\ listed' = listed + 1
  /\ directory' = Append(directory, f)
  /\ Take(f)

\* os.walk lists the next file of a directory whose content is known
NextFile ==
  /\ idx < Len(directory)
  /\ UNCHANGED <<directory, listed>>
  /\ Take(directory[idx + 1])

\* _handle_file with its two calls exchanged
HandleFile_copy_first == <<"copy", "insert">>

\* _handle_file: the calls it makes, in order
HandleFile == <<"insert", "copy">>

\* the statement after call s of _handle_file
After(s) == IF s = HandleFile[1] THEN HandleFile[2] ELSE "update"

\* line 510: _image.model raises KeyError when the tag is absent
ResolveNoModel ==
  /\ pc = "resolve"
  /\ ~HasTag(image, "Model")
  /\ Raise("KeyError")

\* line 510: the model is registered already
ResolveKnown ==
  /\ pc = "resolve"
  /\ HasTag(image, "Model")
  /\ camera_model_exists(ExifValue(image, "Model"))
  /\ pc' = HandleFile[1]
  /\ UNCHANGED <<camera, media, durable, disk, status, command, directory, more, idx, count,
                 inserted, copied, checksums, todo, runs, listed, externals, hist>>

\* _ask_word_question: an empty answer takes the default
ask_word_question(answer, default) == IF answer = "" THEN default ELSE answer

\* DB.add_camera: the row of the INSERT
CameraRecord(make, model, name, desc) ==
  [name |-> name, model |-> model, description |-> desc, make |-> make]

\* lines 511-517: _new_camera prompts until the operator confirms; then
\* _image.make is read (KeyError when absent) and add_camera inserts the
\* row (IntegrityError on a duplicate name) and commits
ResolveNew(nameAnswer, descAnswer) ==
  /\ pc = "resolve"
  /\ HasTag(image, "Model")
  /\ LET model == ExifValue(image, "Model")
         _name == ask_word_question(nameAnswer, model)
         _desc == ask_word_question(descAnswer, model)
     IN  /\ ~camera_model_exists(model)
         /\ hist' = [hist EXCEPT !.prompts[model] = @ + 1]
         /\ IF ~HasTag(image, "Make")
            THEN Traceback("KeyError")
            ELSE LET row == CameraRecord(ExifValue(image, "Make"), model,
                                         _name, _desc)
                 IN  IF ~CameraUniqueOk(row)
                     THEN Traceback("IntegrityError")
                     ELSE /\ camera' = Append(camera, row)
                          /\ durable' = media
                          /\ pc' = HandleFile[1]
                          /\ UNCHANGED <<media, disk, status, command,
                                         directory, more, idx, count, inserted,
                                         copied, checksums, todo, runs, listed,
                                         externals>>

\* line 482, DB.insert_image_into_db: media.newname and media.date are read
\* first (KeyError, ValueError); a known fingerprint returns False; the
\* INSERT raises IntegrityError on a UNIQUE column; the row stays pending
Insert ==
  /\ pc = "insert"
  /\ IF DateError(image) # "none"
     THEN Raise(DateError(image))
     ELSE IF file_exists_in_db(image)
     THEN /\ inserted' = FALSE
          /\ pc' = After("insert")
          /\ UNCHANGED <<camera, media, durable, disk, status, command,
                         directory, more, idx, count, copied, checksums, todo,
                         runs, listed, externals, hist>>
     ELSE IF ~MediaUniqueOk(MediaRow(image))
     THEN Raise("IntegrityError")
     ELSE /\ media' = media \cup {MediaRow(image)}
          /\ inserted' = TRUE
          /\ pc' = After("insert")
          /\ hist' = [hist EXCEPT !.inserts = @ + 1]
          /\ UNCHANGED <<camera, durable, disk, status, command, directory, more,
                         idx, count, copied, checksums, todo, runs, listed,
                         externals>>

\* line 484, ImageSort._copy: False when the destination exists, else the
\* file is copied and the method falls off its end (None)
Copy ==
  /\ pc = "copy"
  /\ IF DateError(image) # "none"
     THEN Raise(DateError(image))
     ELSE IF Exists(newname(image))
     THEN /\ copied' = "False"
          /\ pc' = After("copy")
          /\ UNCHANGED <<camera, media, durable, disk, status, command,
                         directory, more, idx, count, inserted, checksums, todo,
                         runs, listed, externals, hist>>
     ELSE /\ disk' = WriteFile(newname(image), image.content)
          /\ copied' = "None"
          /\ pc' = After("copy")
          /\ hist' = [hist EXCEPT !.copies = @ + 1, !.copiedAt = idx]
          /\ UNCHANGED <<camera, media, durable, status, command, directory, more,
                         idx, count, inserted, checksums, todo, runs, listed,
                         externals>>

\* Python truth value of what _copy returns, and `copied or inserted`
Truthy(v) == v = "True"
Updated(c, i) == IF Truthy(c) THEN TRUE ELSE i

\* line 521 with the counter compared one too high
CommitDue_late(c) == c % (update_threshold + 1) = 0

\* line 521: count % self.update_threshold == 0
CommitDue(c) == c % update_threshold = 0

\* lines 486, 518-522: updated = copied or inserted; the counter and the
\* commit on every update_threshold-th update
Update ==
  /\ pc = "update"
  /\ IF Updated(copied, inserted)
     THEN /\ count' = count + 1
          /\ durable' = IF CommitDue(count + 1) THEN media ELSE durable
     ELSE UNCHANGED <<count, durable>>
  /\ pc' = "walk"
  /\ inserted' = FALSE
  /\ copied' = "None"
  /\ UNCHANGED <<camera, media, disk, status, command, directory, more, idx,
                 checksums, todo, runs, listed, externals, hist>>

\* line 523: the walk is over; commit, and the process ends normally
EndScan ==
  /\ pc = "walk"
  /\ idx = Len(directory)
  /\ durable' = media
  /\ pc' = "exit"
  /\ status' = "ok"
  /\ more' = FALSE
  /\ UNCHANGED <<camera, media, disk, command, directory, idx, count,
                 inserted, copied, checksums, todo, runs, listed, externals, hist>>

\* ------------------------------------------------------------------------
\* verify: ImageSort.verify()
\* ------------------------------------------------------------------------
\* the methods class DB and class ImageSort define
DBMethods ==
  {"__init__", "_init_db", "get_setting", "get_destination",
   "camera_model_exists", "add_camera", "_get_camera_name_from_model",
   "camera_id_from_model", "get_camera_from_id", "get_files",
   "get_file_details", "file_exists_in_db", "insert_image_into_db"}
ImageSortMethods ==
  {"__init__", "verify", "_ask_yesno_question", "_ask_word_question",
   "_new_camera", "_copy", "_handle_file", "sha256sum", "sort"}

\* DB.get_files: filename_new of every row (fetchall)
get_files == {r.filename_new : r \in media}

\* DB.get_file_details: the row of a canonical path
get_file_details(p) == CHOOSE r \in media : r.filename_new = p

\* verify(args): a new process; the for loop starts with the rows of
\* get_files()
StartVerify(c) ==
  /\ Idle
  /\ runs < MaxRuns
  /\ pc' = "verify"
  /\ status' = "none"
  /\ command' = "verify"
  /\ checksums' = c
  /\ todo' = get_files
  /\ directory' = <<>>
  /\ more' = FALSE
  /\ idx' = 0
  /\ count' = 0
  /\ inserted' = FALSE
  /\ copied' = "None"
  /\ runs' = runs + 1
  /\ hist' = [NewRun EXCEPT !.rowsAt = media]
  /\ UNCHANGED <<camera, media, durable, disk, listed, externals>>

\* lines 408-414, one iteration: a missing file calls self.db.delete_file,
\* a differing checksum calls self.checksum_dont_match; a call of a method
\* the class does not define raises AttributeError
VerifyFile(p) ==
  /\ pc = "verify"
  /\ p \in todo
  /\ LET details == get_file_details(p)
     IN  IF ~Exists(details.filename_new) /\ "delete_file" \notin DBMethods
         THEN Raise("AttributeError")
         ELSE IF /\ checksums
                 /\ details.sha256sum # Sha256(disk[details.filename_new])
                 /\ "checksum_dont_match" \notin ImageSortMethods
         THEN Raise("AttributeError")
         ELSE /\ todo' = todo \ {p}
              /\ hist' = [hist EXCEPT !.visited = @ \cup {p}]
              /\ UNCHANGED <<camera, media, durable, disk, pc, status,
                             command, directory, more, idx, count, inserted,
                             copied, checksums, runs, listed, externals>>

\* the loop is over: verify() returns without a commit
VerifyEnd ==
  /\ pc = "verify"
  /\ todo = {}
  /\ pc' = "exit"
  /\ status' = "ok"
  /\ media' = durable
  /\ UNCHANGED <<camera, durable, disk, command, directory, more, idx, count,
                 inserted, copied, checksums, todo, runs, listed, externals, hist>>

\* ------------------------------------------------------------------------
\* Changes to the destination tree made from outside, between two runs
\* ------------------------------------------------------------------------
Forget(deletion) ==
  /\ pc' = "shell"
  /\ status' = "none"
  /\ command' = "none"
  /\ directory' = <<>>
  /\ more' = FALSE
  /\ idx' = 0
  /\ count' = 0
  /\ checksums' = FALSE
  /\ todo' = {}
  /\ hist' = [NoHist EXCEPT !.prompts = hist.prompts,
                            !.deleted = hist.deleted \/ deletion]
  /\ externals' = externals + 1
  /\ UNCHANGED <<camera, media, durable, inserted, copied, runs, listed>>

\* a file of the destination tree is deleted
ExternalDelete(p) ==
  /\ Idle
  /\ externals < MaxExternal
  /\ p \in DOMAIN disk
  /\ disk' = RemoveFile(p)
  /\ Forget(TRUE)

\* the content of a file of the destination tree is altered
Altered(c) == [c EXCEPT !.data = 0]
ExternalAlter(p) ==
  /\ Idle
  /\ externals < MaxExternal
  /\ p \in DOMAIN disk
  /\ disk[p] # Altered(disk[p])
  /\ disk' = WriteFile(p, Altered(disk[p]))
  /\ Forget(FALSE)

\* the scan commands
ScanStep ==
  \/ StartScan
  \/ StartRescan
  \/ \E f \in Files : NextFileNew(f)
  \/ NextFile
  \/ ResolveNoModel
  \/ ResolveKnown
  \/ \E a \in NameInputs, b \in DescInputs : ResolveNew(a, b)
  \/ Insert
  \/ Copy
  \/ Update
  \/ EndScan

Next ==
  \/ ScanStep
  \/ \E c \in BOOLEAN : StartVerify(c)
  \/ \E p \in todo : VerifyFile(p)
  \/ VerifyEnd
  \/ \E p \in DOMAIN disk : ExternalDelete(p)
  \/ \E p \in DOMAIN disk : ExternalAlter(p)

\* scan-directory and verify over directories of fixture files, with
\* outside changes to the destination tree between runs
Spec == Init /\ [][Next]_vars

NextBurst ==
  \/ ScanStep
  \/ StartScanBurst

\* scan-directory alone, the large directory included
SpecBurst == Init /\ [][NextBurst]_vars

\* ------------------------------------------------------------------------
\* Properties
\* ------------------------------------------------------------------------
\* a scan process is running
Scanning == command = "scandir" /\ ~Idle

\* a scan has completed normally
ScanDone == command = "scandir" /\ pc = "exit" /\ status = "ok"

\* rows of the catalog with the fingerprint of file f
RowsOf(f) == {r \in media : r.sha256sum = sha256sum(f)}

\* sort() is about to call insert_image_into_db for a file whose
\* fingerprint is in the catalog
DuplicateAtInsert == pc = "insert" /\ RowsOf(image) # {}

\* sort() is about to call insert_image_into_db for a file whose canonical
\* path is cataloged under another fingerprint
PathTaken(f) ==
  \E r \in media :
    r.filename_new = newname(f) /\ r.sha256sum # sha256sum(f)
CollisionAtInsert ==
  pc = "insert" /\ DateError(image) = "none" /\ PathTaken(image)

\* fingerprints are unique, and a completed scan leaves exactly one row for
\* the bytes of each recognized file of its directory
C1_UniqueFingerprint ==
  /\ \A r1, r2 \in media : r1.sha256sum = r2.sha256sum => r1 = r2
  /\ ScanDone =>
       \A i \in 1..Len(directory) :
         recognized(directory[i]) => Cardinality(RowsOf(directory[i])) = 1
\* insert_image_into_db on cataloged bytes: False, no error, no new row
C1_SecondRejected ==
  DuplicateAtInsert =>
    /\ pc' = After("insert")
    /\ inserted' = FALSE
    /\ media' = media
    /\ status' = status

\* C1: no two rows of the catalog share a fingerprint; a file whose bytes
\* are cataloged already makes insert_image_into_db return False, without
\* an error and without a new row; and after a scan that completed, every
\* recognized file of the directory has exactly one row for its fingerprint.
C1_Dedup == []C1_UniqueFingerprint /\ [][C1_SecondRejected]_vars

\* C1 witness: a scan has completed over a directory holding the same bytes
\* twice, and the catalog has one row for them.
C1_Witness ==
  /\ ScanDone
  /\ \E i, j \in 1..Len(directory) :
       /\ i < j
       /\ recognized(directory[i]) /\ recognized(directory[j])
       /\ directory[i].content = directory[j].content
       /\ Cardinality(RowsOf(directory[j])) = 1

\* a step of a scan that repeats the scan that has just completed
C2_RerunStep ==
  (hist.rerun /\ Scanning) =>
    /\ media' = media
    /\ durable' = durable
    /\ camera' = camera
    /\ disk' = disk
    /\ hist'.inserts = 0
    /\ hist'.copies = 0
    /\ count' = 0
    /\ status' \in {"none", "ok"}

\* C2: in a scan that repeats the scan that has just completed normally,
\* no step changes the catalog or the destination tree, nothing is inserted
\* and nothing is copied.
C2_Idempotent == [][C2_RerunStep]_vars

\* C2 witness: the repeated scan of a directory of two cataloged pictures
\* has completed.
C2_Witness ==
  /\ ScanDone
  /\ hist.rerun
  /\ Len(directory) >= 2
  /\ Cardinality(media) >= 2

\* a step of _handle_file for a file whose fingerprint is in the catalog
C3_DuplicateStep ==
  (DuplicateAtInsert \/ (pc = "copy" /\ ~inserted)) =>
    /\ disk' = disk
    /\ media' = media
    /\ status' = status

\* C3: as the specification states it, handling a file whose fingerprint is
\* in the catalog copies nothing, inserts nothing and raises nothing.
C3_DuplicateNoEffect == [][C3_DuplicateStep]_vars

\* canonical paths are unique in the catalog
C4_UniquePath ==
  \A r1, r2 \in media : r1.filename_new = r2.filename_new => r1 = r2
\* a step of _handle_file for a file whose canonical path is cataloged
\* under another fingerprint
C4_CollisionStep ==
  (Scanning /\ pc \in {"insert", "copy"} /\ DateError(image) = "none"
     /\ PathTaken(image)) =>
    /\ disk' = disk
    /\ media' \subseteq media

\* C4: as the specification states it, no two rows share a canonical path,
\* and the handling of a file whose canonical path is cataloged under
\* another fingerprint adds no row and copies nothing for that file.
C4_PathUnique == []C4_UniquePath /\ [][C4_CollisionStep]_vars

\* the insert step for new bytes whose canonical path is cataloged
C5_CollisionStep ==
  (CollisionAtInsert /\ RowsOf(image) = {}) =>
    /\ pc' = After("insert")
    /\ inserted' = FALSE
    /\ media' = media
    /\ durable' = durable
    /\ disk' = disk

\* C5: as the specification states it, a file with new bytes whose canonical
\* path is cataloged already is reported as not copied: the scan goes on, no
\* row is added, and the rows and the destination files there are stay as
\* they are.
C5_CollisionNotCopied == [][C5_CollisionStep]_vars

\* rows of the catalog verify() started with whose destination file is
\* missing, and those whose file differs from the stored fingerprint
MissingRows == {r \in hist.rowsAt : ~Exists(r.filename_new)}
MismatchRows ==
  {r \in hist.rowsAt :
     Exists(r.filename_new) /\ r.sha256sum # Sha256(disk[r.filename_new])}
VerifyEnded == command = "verify" /\ pc = "exit"

\* C6: as the specification states it, verify() over a catalog with exactly
\* one row whose file is missing completes, and the catalog is then every
\* row but that one.
C6_VerifyPrunes ==
  (VerifyEnded /\ Cardinality(MissingRows) = 1) =>
    /\ status = "ok"
    /\ durable = hist.rowsAt \ MissingRows

\* C7: as the specification states it, verify() with checksums, every file
\* present: each row whose file differs from its fingerprint is reported, no
\* row is deleted, and every row is examined.
C7_VerifyFlags ==
  (VerifyEnded /\ checksums /\ MissingRows = {} /\ MismatchRows # {}) =>
    /\ status = "ok"
    /\ MismatchRows \subseteq hist.flagged
    /\ durable = hist.rowsAt
    /\ hist.visited = {r.filename_new : r \in hist.rowsAt}

\* _new_camera has run at most once for each model
C8_OncePerModel == \A m \in Models : hist.prompts[m] <= 1
\* no step changes or removes a Device or prompts for a registered model
C8_DeviceStep ==
  /\ Len(camera') >= Len(camera)
  /\ \A i \in 1..Len(camera) : camera'[i] = camera[i]
  /\ \A m \in Models :
       camera_model_exists(m) => hist'.prompts[m] = hist.prompts[m]

\* C8: as the specification states it, _new_camera runs at most once for
\* each model; a registered Device is never asked for again and never
\* changes.
C8_PromptOnce == []C8_OncePerModel /\ [][C8_DeviceStep]_vars

\* the counter and the pending rows between two files and at the end
C9_Counter ==
  /\ (Scanning /\ pc = "walk") =>
       /\ count = hist.inserts
       /\ Cardinality(media \ durable) < update_threshold
  /\ ScanDone =>
       /\ count = hist.inserts
       /\ media = durable
\* the update that brings the counter to a multiple of update_threshold
C9_CommitStep ==
  (pc = "update" /\ count' # count /\ count' % update_threshold = 0) =>
    durable' = media'

\* C9: between two files of a scan the counter equals the number of rows
\* the scan has inserted and fewer than update_threshold rows are pending;
\* the update that brings the counter to a multiple of update_threshold
\* commits; after a scan that completed nothing is pending.
C9_BatchCommit == []C9_Counter /\ [][C9_CommitStep]_vars

\* C9 witness: the counter has reached update_threshold, the commit was
\* made, and the next insertion of the scan is pending.
C9_Witness ==
  /\ Scanning /\ pc = "walk"
  /\ count = update_threshold + 1
  /\ Cardinality(media \ durable) = 1
  /\ Cardinality(durable) >= update_threshold

\* the step in which a scan raises
C10_AbortStep ==
  (Scanning /\ pc' = "exit" /\ status' # "ok") =>
    /\ disk' = disk
    /\ hist.copiedAt # idx
    /\ durable' = durable
    /\ media' = durable
    /\ RowsOf(image)' = {}
\* a process that has ended takes no further step of its own
C10_EndStep ==
  (pc = "exit") => (runs' = runs + 1 \/ externals' = externals + 1)

\* C10: a scan that raises ends there: the failing file has no row and no
\* copy was made for it, the committed rows stay, the pending ones are gone,
\* and the walk does not go on.
C10_Abort == [][C10_AbortStep /\ C10_EndStep]_vars

\* C10 witness: a scan has raised KeyError at its second file, a picture
\* without the capture-timestamp tag, and a row committed earlier in the
\* scan is in the catalog.
C10_Witness ==
  /\ command = "scandir" /\ pc = "exit" /\ status = "KeyError"
  /\ idx = 2
  /\ HasTag(image, "Model") /\ ~HasTag(image, "CreateDate")
  /\ RowsOf(directory[1]) # {}
  /\ media = durable

\* the lower-cased extension of f is in neither the image nor the video set
Unrecognized(f) == ext(f) \notin (exts.image \cup exts.video)

\* the step of the walk that takes a file of neither set
C11_SkipStep ==
  (Scanning /\ pc = "walk" /\ idx' = idx + 1
     /\ Unrecognized(directory'[idx'])) =>
    /\ pc' = "walk"
    /\ UNCHANGED <<camera, media, durable, disk, status, count>>
    /\ hist' = hist
\* device resolution, insert and copy only ever handle a file of a set
C11_OnlyRecognized ==
  (Scanning /\ pc \in {"resolve", "insert", "copy", "update"}) =>
    ~Unrecognized(image)

\* C11: a scanned file whose lower-cased extension is in neither the image
\* set nor the video set is skipped: the catalog, the devices and the
\* destination tree stay as they are, nothing is prompted for, nothing is
\* raised, and the walk is ready for the next file; no later statement of
\* sort() ever handles such a file.
C11_Skipped == [][C11_SkipStep]_vars /\ []C11_OnlyRecognized

\* C11 witness: a scan of a directory whose first file is of neither set
\* has completed, and the file after it was cataloged by that scan.
C11_Witness ==
  /\ ScanDone
  /\ Len(directory) = 2
  /\ Unrecognized(directory[1])
  /\ hist.inserts = 1
  /\ RowsOf(directory[2]) # {}

\* the device reference of every row, pending or committed, is the rowid of
\* a Device
C12_Referenced ==
  \A r \in media \cup durable : r.camera_id \in 1..Len(camera)
\* a row enters the catalog with a reference to a Device that was there
\* before the step, and no step removes or renumbers a Device
C12_InsertStep ==
  /\ \A r \in media' \ media :
       /\ r.camera_id \in 1..Len(camera)
       /\ camera'[r.camera_id] = camera[r.camera_id]
  /\ Len(camera') >= Len(camera)
  /\ \A i \in 1..Len(camera) : camera'[i] = camera[i]

\* C12: in every state the device reference of every catalog row is the
\* rowid of a Device of the registry, and that Device was in the registry
\* (add_camera commits) before the row was inserted.
C12_DeviceExists == []C12_Referenced /\ [][C12_InsertStep]_vars

\* C12 witness: a scan has completed with two Devices registered and a
\* committed row that refers to the second.
C12_Witness ==
  /\ ScanDone
  /\ Len(camera) = 2
  /\ \E r \in durable : r.camera_id = 2

\* a Device of the registry has short name n
NameTaken(n) == \E i \in 1..Len(camera) : camera[i].name = n

\* no two Devices share a model, no two share a short name
C13_Unique ==
  \A i, j \in 1..Len(camera) :
    (camera[i].model = camera[j].model \/ camera[i].name = camera[j].name)
      => i = j
\* the operator confirms, for a model not registered, a short name that a
\* Device has: the registry stays as it is and the process ends; when the
\* INSERT is reached (the Make tag is there) it raises IntegrityError
C13_DuplicateStep ==
  \A a \in NameInputs, b \in DescInputs :
    (ResolveNew(a, b)
       /\ NameTaken(ask_word_question(a, ExifValue(image, "Model")))) =>
      /\ camera' = camera
      /\ pc' = "exit"
      /\ HasTag(image, "Make") => status' = "IntegrityError"

\* C13: in every state no two Devices share a model and no two share a
\* short name; when the operator confirms, for a new model, a short name
\* that another Device has, the INSERT of add_camera raises IntegrityError
\* and the registry is left as it was.
C13_DeviceUnique == []C13_Unique /\ [][C13_DuplicateStep]_vars

\* C13 witness: with a Device registered, a scan has ended in
\* IntegrityError at a picture of a model that is still not registered.
C13_Witness ==
  /\ command = "scandir" /\ pc = "exit" /\ status = "IntegrityError"
  /\ Len(camera) >= 1
  /\ HasTag(image, "Model") /\ HasTag(image, "Make")
  /\ ~camera_model_exists(ExifValue(image, "Model"))

\* "{short_name}/{YYYY-MM}/{YYYY-MM-DD HH.MM.SS}.{short_name}.{ext}": the
\* path components, each as the fields it prints
CanonicalPath(short_name, d, e) ==
  <<short_name,
    <<d.year, d.month>>,
    <<<<d.year, d.month, d.day, d.hour, d.minute, d.second>>, short_name, e>>>>

\* the short name of the Device of file f
ShortName(f) ==
  camera[CHOOSE i \in 1..Len(camera) :
           camera[i].model = ExifValue(f, "Model")].name
\* sort() is at a statement that reads the canonical path of the file, and
\* the capture timestamp of the file parses
PathRead == Scanning /\ pc \in {"insert", "copy"} /\ DateError(image) = "none"

\* the path of the file being handled and the path of every row have the
\* format, and a row that agrees with the file on short name, timestamp
\* and lower-cased extension has the path of the file
C14_Format ==
  /\ PathRead =>
       /\ newname(image) =
            CanonicalPath(ShortName(image), date(image), Lower(image.rawext))
       /\ \A r \in media :
            (/\ camera[r.camera_id].name = ShortName(image)
             /\ r.create_date = date(image)
             /\ Lower(r.filename_original[2]) = Lower(image.rawext))
              => r.filename_new = newname(image)
  /\ \A r \in media :
       r.filename_new =
         CanonicalPath(camera[r.camera_id].name, r.create_date,
                       Lower(r.filename_original[2]))
\* the statements that read newname run with the Device registered
C14_AfterDevice ==
  (Scanning /\ pc \in {"insert", "copy"}) =>
    /\ HasTag(image, "Model")
    /\ \E i \in 1..Len(camera) : camera[i].model = ExifValue(image, "Model")

\* C14: the canonical path is
\* {short_name}/{YYYY-MM}/{YYYY-MM-DD HH.MM.SS}.{short_name}.{ext} of the
\* short name of the file's Device, its capture timestamp and its
\* lower-cased extension, and of nothing else: files that agree on the
\* three agree on the path whatever their name and bytes; the path is read
\* only once the Device is registered.
C14_CanonicalPath == C14_Format /\ C14_AfterDevice

\* C14 witness: sort() is about to insert a picture whose canonical path is
\* that of a row made from a file of another name and other bytes.
C14_Witness ==
  /\ PathRead /\ pc = "insert"
  /\ \E r \in media :
       /\ r.filename_new = newname(image)
       /\ r.filename_original # <<image.stem, image.rawext>>
       /\ r.sha256sum # sha256sum(image)

\* the row sort() has inserted for the file it is handling
NewRow == {r \in media \ durable : r.sha256sum = sha256sum(image)}

\* the INSERT of a file's row: the destination file is in place, the copy
\* step having come first
C15_CopiedAtInsert ==
  (Scanning /\ media' \ media # {}) => Exists(newname(image))

\* C15: as the specification states it, for a newly ingested file the copy
\* to the destination path comes before the catalog INSERT: when the row is
\* inserted the file is at its destination.
C15_CopyBeforeInsert == [][C15_CopiedAtInsert]_vars

\* the row of a file is inserted with the Device registered, the
\* fingerprint found absent and no copy made for the file yet, and the copy
\* step is next
C15_InsertStep ==
  (Scanning /\ media' \ media # {}) =>
    /\ pc = "insert" /\ pc' = "copy"
    /\ \E i \in 1..Len(camera) : camera[i].model = ExifValue(image, "Model")
    /\ RowsOf(image) = {}
    /\ hist.copiedAt # idx
    /\ inserted'
\* the copy step of an inserted file finds the row in the catalog
C15_CopyStep ==
  (Scanning /\ pc = "copy" /\ inserted) =>
    /\ NewRow # {}
    /\ pc' = "update"
    /\ media' = media

\* C15 (amended): for a newly ingested file the steps are, in this order,
\* the Device resolved, the fingerprint checked, the row inserted (pending)
\* and then the copy step: the catalog INSERT comes before the copy.
C15_InsertBeforeCopy == [][C15_InsertStep /\ C15_CopyStep]_vars

\* C15 witness: a picture has been inserted and then copied; its row is
\* pending and sort() is at the counter update.
C15_Witness ==
  /\ Scanning /\ pc = "update"
  /\ inserted
  /\ hist.copiedAt = idx
  /\ NewRow # {}
  /\ Exists(newname(image))

\* there is a file at path p of the destination tree
OnDisk(p) == p \in DOMAIN disk
\* a row of the catalog holds canonical path p
Cataloged(p) == \E r \in media : r.filename_new = p

\* sort() is handling a file whose fingerprint is not cataloged and whose
\* destination path exists
ExistingDestination ==
  /\ Scanning
  /\ pc \in {"insert", "copy"}
  /\ DateError(image) = "none"
  /\ OnDisk(newname(image))

\* no step of a scan changes or removes a file of the destination tree
C16_NoOverwrite ==
  Scanning => \A p \in DOMAIN disk : OnDisk(p)' /\ disk'[p] = disk[p]
\* the copy step for a destination path that exists: skipped, no error
C16_CopySkipped ==
  (ExistingDestination /\ pc = "copy") =>
    /\ disk' = disk
    /\ copied' = "False"
    /\ pc' = "update"
    /\ status' = status
\* the insert step for new bytes whose destination path exists: the row is
\* inserted, no error
C16_RowInserted ==
  (ExistingDestination /\ pc = "insert" /\ RowsOf(image) = {}) =>
    /\ media' = media \cup {MediaRow(image)}
    /\ inserted'
    /\ pc' = "copy"
    /\ status' = status
    /\ disk' = disk

C16_RowInsertedOrRaised ==
  (ExistingDestination /\ pc = "insert" /\ RowsOf(image) = {}) =>
    /\ disk' = disk
    /\ IF Cataloged(newname(image))
       THEN /\ status' = "IntegrityError"
            /\ pc' = "exit"
            /\ media' = durable
            /\ durable' = durable
       ELSE /\ media' = media \cup {MediaRow(image)}
            /\ inserted'
            /\ pc' = "copy"
            /\ status' = status

C17_FingerprintMatchesFile ==
  (externals = 0 /\ Idle) =>
    \A r \in durable :
      /\ OnDisk(r.filename_new)
      /\ r.sha256sum = Sha256(disk[r.filename_new])

\* C18: with no destination file deleted from outside, in every state (the
\* process may stop at any statement) every committed row of the catalog
\* has a file at its canonical path: no commit is made between the INSERT
\* of a row and the copy step of its file.
C18_CommittedHasFile ==
  ~hist.deleted => \A r \in durable : OnDisk(r.filename_new)

\* C18 witness: a scan has raised after an earlier commit; the committed
\* rows have their files, and a file copied for a row that was rolled back
\* is in the destination tree without a row.
C18_Witness ==
  /\ command = "scandir" /\ pc = "exit" /\ status \notin {"ok", "none"}
  /\ ~hist.deleted
  /\ durable # {}
  /\ \E p \in DOMAIN disk : \A r \in durable : r.filename_new # p

\* C19: as the specification states it, verify() with checksums over a
\* catalog with rows whose file is missing completes: those rows are deleted
\* and not reported as mismatches, the others stay, and every row has been
\* examined.
C19_MissingWithChecksums ==
  (VerifyEnded /\ checksums /\ MissingRows # {}) =>
    /\ status = "ok"
    /\ durable = hist.rowsAt \ MissingRows
    /\ hist.flagged \cap MissingRows = {}
    /\ hist.visited = {r.filename_new : r \in hist.rowsAt}

====
